---------------------------- MODULE Spec2Model ----------------------------
(***************************************************************************)
(* Model of scsnv: the VCF header metadata parser                          *)
(* (src/scsnv/_vcf_header_parser.py) and the raw header/body splitter      *)
(* (src/scsnv/_core.py).                                                   *)
(*                                                                         *)
(* A Python str is a sequence of one-character strings.                    *)
(***************************************************************************)
EXTENDS Integers, Sequences, FiniteSets, TLC

VARIABLES
    \* read_meta_hash, one loop iteration per step
    meta_string, hpc, key, rest, state, k, v, val,
    \* vcf_field_count: argument, position, returned value
    num_str, cpc, num,
    \* read_info, read_filter, read_alt, read_format, read_contig:
    \* argument, position, reader called, returned value
    string, spc, reader, record,
    \* read_meta: argument, position, returned value
    meta_line, mpc, meta,
    \* read_vcf: the lines of the file at path, position, lines iterated,
    \* the locals header, content and line, returned value
    file, fpc, pos, header, content, line, ret

hashVars == <<meta_string, hpc, key, rest, state, k, v, val>>
countVars == <<num_str, cpc, num>>
structVars == <<string, spc, reader, record>>
metaVars == <<meta_line, mpc, meta>>
vcfVars == <<file, fpc, pos, header, content, line, ret>>
vars == <<hashVars, countVars, structVars, metaVars, vcfVars>>

-----------------------------------------------------------------------------
(* Characters and str helpers *)

QUOTE == "\""
COMMA == ","
EQ == "="
HASH == "#"

\* s[i..] (1-based), the empty str when i is past the end
From(s, i) == SubSeq(s, i, Len(s))

\* number of occurrences of character c in s
Count(s, c) == Cardinality({i \in 1..Len(s) : s[i] = c})

\* index of the first c in s, 0 when there is none
Find(s, c) == IF \E i \in 1..Len(s) : s[i] = c
              THEN CHOOSE i \in 1..Len(s) : s[i] = c /\ \A j \in 1..(i - 1) : s[j] # c
              ELSE 0

\* str.lstrip(chars)
RECURSIVE lstrip(_, _)
lstrip(s, chars) == IF s # <<>> /\ Head(s) \in chars THEN lstrip(Tail(s), chars) ELSE s

\* str.rstrip(chars)
RECURSIVE rstrip(_, _)
rstrip(s, chars) == IF s # <<>> /\ s[Len(s)] \in chars
                    THEN rstrip(SubSeq(s, 1, Len(s) - 1), chars) ELSE s

\* str.strip(chars)
strip(s, chars) == rstrip(lstrip(s, chars), chars)

\* str.split(sep, 1) for a one-character sep: one item when sep is absent
split1(s, sep) == IF Find(s, sep) = 0 THEN <<s>>
                  ELSE <<SubSeq(s, 1, Find(s, sep) - 1), From(s, Find(s, sep) + 1)>>

\* str.startswith(prefix)
startswith(s, prefix) == Len(prefix) <= Len(s) /\ SubSeq(s, 1, Len(prefix)) = prefix

\* all strs over alphabet cs of length at most n
Strs(cs, n) == UNION {[1..m -> cs] : m \in 0..n}

\* Python's None where a str may stand (a regex group that took no part, an
\* absent argument): a tuple that is no str
NONE == <<"None">>

\* Python values a field count can be, and the exceptions raised instead
PyNone == [type |-> "NoneType", value |-> 0]
PyInt(n) == [type |-> "int", value |-> n]
Raised(exc) == [type |-> exc, value |-> 0]

-----------------------------------------------------------------------------
(* OrderedDict, as the sequence of its (key, value) items in insertion order *)

keys(d) == {d[i][1] : i \in 1..Len(d)}

index(d, kk) == CHOOSE i \in 1..Len(d) : d[i][1] = kk

\* a setitem that moves a re-assigned key to the end
setitem_moving(d, kk, vv) ==
    IF kk \in keys(d)
    THEN Append(SelectSeq(d, LAMBDA e : e[1] # kk), <<kk, vv>>)
    ELSE Append(d, <<kk, vv>>)

\* val[k] = v
setitem(d, kk, vv) ==
    IF kk \in keys(d)
    THEN [d EXCEPT ![index(d, kk)] = <<kk, vv>>]
    ELSE Append(d, <<kk, vv>>)

-----------------------------------------------------------------------------
(* read_meta_hash: the quoted key/value scanner *)

\* a scanner that lets a comma restart the key being read
read_key_comma_restarts(s, c) ==
    IF c = EQ THEN [s EXCEPT !.state = 1]
    ELSE IF c = COMMA THEN [s EXCEPT !.k = <<>>]
    ELSE [s EXCEPT !.k = Append(s.k, c)]

\* state == 0: reading item key
read_key(s, c) ==
    IF c = EQ THEN [s EXCEPT !.state = 1]
    ELSE [s EXCEPT !.k = Append(s.k, c)]

\* a scanner that keeps the key buffer when it commits a pair
read_value_keeps_key(s, c) ==
    IF s.v = <<>> /\ c = QUOTE
    THEN [s EXCEPT !.v = Append(s.v, c), !.state = 2]
    ELSE IF c = COMMA
    THEN [state |-> 0, k |-> s.k, v |-> <<>>, val |-> setitem(s.val, s.k, s.v)]
    ELSE [s EXCEPT !.v = Append(s.v, c)]

\* a scanner that never enters the quoted state
read_value_unquoted(s, c) ==
    IF c = COMMA
    THEN [state |-> 0, k |-> <<>>, v |-> <<>>, val |-> setitem(s.val, s.k, s.v)]
    ELSE [s EXCEPT !.v = Append(s.v, c)]

\* state == 1: reading item value
read_value(s, c) ==
    IF s.v = <<>> /\ c = QUOTE
    THEN [s EXCEPT !.v = Append(s.v, c), !.state = 2]
    ELSE IF c = COMMA
    THEN [state |-> 0, k |-> <<>>, v |-> <<>>, val |-> setitem(s.val, s.k, s.v)]
    ELSE [s EXCEPT !.v = Append(s.v, c)]

\* state == 2: reading quoted item value
read_quoted(s, c) ==
    IF c = QUOTE
    THEN [s EXCEPT !.v = Append(s.v, c), !.state = 1]
    ELSE [s EXCEPT !.v = Append(s.v, c)]

\* one iteration of the for loop
scan_char(s, c) ==
    IF s.state = 0 THEN read_key(s, c)
    ELSE IF s.state = 1 THEN read_value(s, c)
    ELSE read_quoted(s, c)

\* the scanner's locals before the loop
scan_init == [state |-> 0, k |-> <<>>, v |-> <<>>, val |-> <<>>]

\* the commit after the loop
scan_end(s) == IF s.k # <<>> THEN setitem(s.val, s.k, s.v) ELSE s.val

RECURSIVE scan_from(_, _)
scan_from(s, body) ==
    IF body = <<>> THEN scan_end(s) ELSE scan_from(scan_char(s, Head(body)), Tail(body))

BRACKETS == {"[", "<", ">", "]"}

\* items[1].strip("[<>]"); items[1] is an IndexError when there is no "="
hash_body(ms) == strip(split1(ms, EQ)[2], BRACKETS)

\* items[0].lstrip("#")
hash_key(ms) == lstrip(split1(ms, EQ)[1], {HASH})

\* read_meta_hash(meta_string), for a meta_string that holds "="
read_meta_hash(ms) == <<hash_key(ms), scan_from(scan_init, hash_body(ms))>>

-----------------------------------------------------------------------------
(* Inputs of read_meta_hash *)

MaxBody == 6

BodyChars == {"a", EQ, COMMA, QUOTE}

\* ##META=<body>
Bracketed(body) == <<"#", "#", "M", "=", "<">> \o body \o <<">">>

\* ID=DP,Description="a,b,c",Source="x"
ExampleBody ==
    <<"I", "D", "=", "D", "P", ",">> \o
    <<"D", "e", "s", "c", "r", "i", "p", "t", "i", "o", "n", "=">> \o
    <<QUOTE, "a", ",", "b", ",", "c", QUOTE, ",">> \o
    <<"S", "o", "u", "r", "c", "e", "=", QUOTE, "x", QUOTE>>

\* a=1,b=2,a=3
RepeatBody == <<"a", "=", "1", ",", "b", "=", "2", ",", "a", "=", "3">>

\* a=<b>,c=[d]
NestedBody == <<"a", "=", "<", "b", ">", ",", "c", "=", "[", "d", "]">>

Bodies == Strs(BodyChars, MaxBody) \cup {ExampleBody, RepeatBody, NestedBody}

-----------------------------------------------------------------------------
(* read_meta_hash as a state machine *)

\* no call of vcf_field_count in progress
CountIdle == num_str = NONE /\ cpc = "idle" /\ num = PyNone

\* no call of read_meta_hash in progress
HashIdle ==
    /\ meta_string = <<>> /\ hpc = "idle" /\ key = <<>> /\ rest = <<>>
    /\ state = 0 /\ k = <<>> /\ v = <<>> /\ val = <<>>

\* no call of a structured-line reader in progress
StructIdle == string = <<>> /\ spc = "idle" /\ reader = "none" /\ record = PyNone

\* no call of read_meta in progress
MetaIdle == meta_line = <<>> /\ mpc = "idle" /\ meta = <<>>

\* a local that is not bound yet
UNBOUND == <<"unbound">>

\* no call of read_vcf in progress
VcfIdle ==
    /\ file = <<>> /\ fpc = "idle" /\ pos = 0 /\ header = <<>> /\ content = <<>>
    /\ line = UNBOUND /\ ret = PyNone

HashInit ==
    /\ CountIdle
    /\ StructIdle
    /\ MetaIdle
    /\ VcfIdle
    /\ meta_string \in {Bracketed(b) : b \in Bodies}
    /\ hpc = "call"
    /\ key = <<>>
    /\ rest = <<>>
    /\ state = 0
    /\ k = <<>>
    /\ v = <<>>
    /\ val = <<>>

\* lines 241-248
HashStart ==
    /\ hpc = "call"
    /\ hpc' = "scan"
    /\ key' = hash_key(meta_string)
    /\ rest' = hash_body(meta_string)
    /\ state' = scan_init.state
    /\ k' = scan_init.k
    /\ v' = scan_init.v
    /\ val' = scan_init.val
    /\ UNCHANGED <<meta_string, countVars, structVars, metaVars, vcfVars>>

\* lines 249-272, one character
HashStep ==
    /\ hpc = "scan"
    /\ rest # <<>>
    /\ LET n == scan_char([state |-> state, k |-> k, v |-> v, val |-> val], Head(rest))
       IN /\ state' = n.state
          /\ k' = n.k
          /\ v' = n.v
          /\ val' = n.val
    /\ rest' = Tail(rest)
    /\ UNCHANGED <<meta_string, hpc, key, countVars, structVars, metaVars, vcfVars>>

\* lines 273-275
HashFinish ==
    /\ hpc = "scan"
    /\ rest = <<>>
    /\ hpc' = "done"
    /\ val' = scan_end([state |-> state, k |-> k, v |-> v, val |-> val])
    /\ UNCHANGED <<meta_string, key, rest, state, k, v, countVars, structVars, metaVars, vcfVars>>

HashNext == HashStart \/ HashStep \/ HashFinish

SpecHash == HashInit /\ [][HashNext]_vars

-----------------------------------------------------------------------------
(* Properties of read_meta_hash *)

Chars(s) == {s[i] : i \in 1..Len(s)}

\* the value being read opened with a double quote that is not closed yet
InsideQuoted(value) ==
    /\ value # <<>>
    /\ value[1] = QUOTE
    /\ Count(From(value, 2), QUOTE) = 0

\* the loop is about to read character c
Reading(c) == hpc = "scan" /\ rest # <<>> /\ Head(rest) = c

\* the step about to be taken commits the pair (k, v)
Committing ==
    /\ hpc = "scan"
    /\ \/ rest # <<>> /\ state = 1 /\ Head(rest) = COMMA
       \/ rest = <<>> /\ k # <<>>

Done == hpc = "done"

ExampleResult ==
    << <<(<<"I", "D">>), (<<"D", "P">>)>>,
       <<(<<"D", "e", "s", "c", "r", "i", "p", "t", "i", "o", "n">>),
         (<<QUOTE, "a", ",", "b", ",", "c", QUOTE>>)>>,
       <<(<<"S", "o", "u", "r", "c", "e">>), (<<QUOTE, "x", QUOTE>>)>> >>

\* C1: a comma read inside a double-quoted value (opened by a quote as the
\* value's first character and not closed yet) is appended to the value and
\* commits nothing; and the body ID=DP,Description="a,b,c",Source="x" yields
\* exactly the pairs ID, Description, Source, in that order, quotes kept.
C1_QuotedCommaNeverSplits ==
    /\ [](Done /\ meta_string = Bracketed(ExampleBody) => val = ExampleResult)
    /\ [][Reading(COMMA) /\ InsideQuoted(v)
            => val' = val /\ k' = k /\ v' = Append(v, COMMA) /\ state' = state]_vars

C1_Witness ==
    /\ Done
    /\ meta_string = Bracketed(ExampleBody)
    /\ Len(val) = 3
    /\ COMMA \in Chars(val[2][2])

\* C2 as stated: every comma outside a double-quoted value commits the pair
\* being read, returns the scanner to reading a key, and is kept out of the
\* key and the value, in the key state as in the value state.
C2_UnquotedCommaAlwaysSplits ==
    [][Reading(COMMA) /\ ~InsideQuoted(v)
         => /\ \E i \in 1..Len(val') : val'[i] = <<k, v>>
            /\ state' = 0 /\ k' = <<>> /\ v' = <<>>]_vars

\* C2 amended: a comma read in the value state outside quotes commits the
\* pair and returns to the key state with empty buffers; a comma read in the
\* key state commits nothing and is appended to the key.
C2_UnquotedCommaSplitsInValueState ==
    [][Reading(COMMA) /\ ~InsideQuoted(v)
         => /\ state = 1 =>
                 /\ \E i \in 1..Len(val') : val'[i] = <<k, v>>
                 /\ state' = 0 /\ k' = <<>> /\ v' = <<>>
            /\ state = 0 =>
                 /\ val' = val
                 /\ state' = 0 /\ k' = Append(k, COMMA) /\ v' = v]_vars

C2_Witness ==
    /\ Done
    /\ Len(val) >= 2
    /\ \E i \in 1..Len(val) : COMMA \in Chars(val[i][1])

\* C3 as stated: every committed pair adds one entry at the end of the
\* result, also when its key was committed before.
C3_OneEntryPerCommittedPair ==
    [][Committing => val' = Append(val, <<k, v>>)]_vars

\* C3 amended: the result holds one entry per distinct committed key, in the
\* order of each key's first commit; a pair whose key was committed before
\* replaces that entry's value in place and adds no entry.
C3_OneEntryPerDistinctKey ==
    [][Committing
         => /\ k \notin keys(val) => val' = Append(val, <<k, v>>)
            /\ k \in keys(val) =>
                 /\ Len(val') = Len(val)
                 /\ \A i \in 1..Len(val) :
                      val'[i] = IF val[i][1] = k THEN <<k, v>> ELSE val[i]
            /\ \A i, j \in 1..Len(val') : val'[i][1] = val'[j][1] => i = j]_vars

C3_Witness ==
    /\ Done
    /\ meta_string = Bracketed(RepeatBody)
    /\ val = << <<(<<"a">>), (<<"3">>)>>, <<(<<"b">>), (<<"2">>)>> >>

\* the pairs read_meta_hash yields for value taken as a new attribute body
Retokenize(value) == read_meta_hash(Bracketed(value))[2]

\* commas held by the keys and values of pairs
RECURSIVE CommasIn(_)
CommasIn(pairs) ==
    IF pairs = <<>> THEN 0
    ELSE Count(Head(pairs)[1], COMMA) + Count(Head(pairs)[2], COMMA) + CommasIn(Tail(pairs))

\* re-tokenizing value yields at most one pair and drops none of its commas
NotSplit(value) ==
    /\ Len(Retokenize(value)) <= 1
    /\ CommasIn(Retokenize(value)) = Count(value, COMMA)

\* value has a comma somewhere after its first "="
CommaAfterEq(value) ==
    /\ Find(value, EQ) # 0
    /\ COMMA \in Chars(From(value, Find(value, EQ) + 1))

\* C4 as stated: no value read_meta_hash produces is split when it is
\* tokenized again as a new attribute body.
C4_RetokenizeNeverSplits ==
    Done => \A i \in 1..Len(val) : NotSplit(val[i][2])

\* C4 amended: a produced value is not split when tokenized again, unless it
\* holds a comma after its first "=" (as the quoted value "a=b,c" does), and
\* then it is split at that comma.
C4_RetokenizeSplitsOnlyAfterEq ==
    Done => \A i \in 1..Len(val) : NotSplit(val[i][2]) <=> ~CommaAfterEq(val[i][2])

C4_Witness ==
    /\ Done
    /\ \E i \in 1..Len(val) :
         /\ COMMA \in Chars(val[i][2])
         /\ EQ \in Chars(val[i][2])
         /\ NotSplit(val[i][2])


-----------------------------------------------------------------------------
(* vcf_field_count *)

\* Conversion between value in file and Python value
field_counts ==
    (<<".">> :> PyNone) @@ (<<"A">> :> PyInt(-1)) @@
    (<<"G">> :> PyInt(-2)) @@ (<<"R">> :> PyInt(-3))

DIGITS == {"0", "1", "2", "3", "4", "5", "6", "7", "8", "9"}

\* the ASCII characters \s matches in a str pattern: space, \t, \n, \r, \f,
\* \v (0x0b) and the separators 0x1c-0x1f, the last five written as the
\* characters themselves; the blanks outside ASCII (0x85, 0xa0, ...) are
\* outside the character set of this model
WHITESPACE == {" ", "\t", "\n", "\r", "\f", "", "", "", "", ""}

\* the ASCII characters int() strips from both ends of a str: space, \t,
\* \n, \r, \f and \v (0x0b), not the separators 0x1c-0x1f
INT_WHITESPACE == {" ", "\t", "\n", "\r", "\f", ""}

digit_value ==
    ("0" :> 0) @@ ("1" :> 1) @@ ("2" :> 2) @@ ("3" :> 3) @@ ("4" :> 4) @@
    ("5" :> 5) @@ ("6" :> 6) @@ ("7" :> 7) @@ ("8" :> 8) @@ ("9" :> 9)

\* the number a str of decimal digits writes, underscores skipped
RECURSIVE digits_value(_, _)
digits_value(s, acc) ==
    IF s = <<>> THEN acc
    ELSE IF Head(s) = "_" THEN digits_value(Tail(s), acc)
    ELSE digits_value(Tail(s), 10 * acc + digit_value[Head(s)])

\* digits, with single underscores allowed between digits
is_digits(s) ==
    /\ s # <<>>
    /\ \A i \in 1..Len(s) : s[i] \in DIGITS \cup {"_"}
    /\ s[1] # "_" /\ s[Len(s)] # "_"
    /\ \A i \in 1..(Len(s) - 1) : ~(s[i] = "_" /\ s[i + 1] = "_")

\* int(s) of a str: surrounding whitespace, an optional sign, decimal digits
py_int(s) ==
    LET t == strip(s, INT_WHITESPACE)
        signed == t # <<>> /\ Head(t) \in {"-", "+"}
        body == IF signed THEN Tail(t) ELSE t
    IN IF ~is_digits(body) THEN Raised("ValueError")
       ELSE IF signed /\ Head(t) = "-" THEN PyInt(0 - digits_value(body, 0))
       ELSE PyInt(digits_value(body, 0))

\* Cast vcf header numbers to integer or None
vcf_field_count(s) ==
    IF s = NONE THEN PyNone
    ELSE IF s \notin DOMAIN field_counts THEN py_int(s)
    ELSE field_counts[s]

MaxToken == 3

\* the last two characters are \v (0x0b) and the separator 0x1c
TokenChars ==
    {"-", "+", "0", "1", "2", "3", ".", "A", "G", "R", "a", "_", " ", "", ""}

\* abc
TokenAbc == <<"a", "b", "c">>

Tokens == Strs(TokenChars, MaxToken) \cup {TokenAbc, NONE}

CountInit ==
    /\ HashIdle
    /\ StructIdle
    /\ MetaIdle
    /\ VcfIdle
    /\ num_str \in Tokens
    /\ cpc = "call"
    /\ num = PyNone

\* lines 163-171
VcfFieldCount ==
    /\ cpc = "call"
    /\ cpc' = "done"
    /\ num' = vcf_field_count(num_str)
    /\ UNCHANGED <<num_str, hashVars, structVars, metaVars, vcfVars>>

CountNext == VcfFieldCount

SpecCount == CountInit /\ [][CountNext]_vars

\* an optional "-" followed by decimal digits
SignedIntegerLiteral(s) ==
    /\ s # NONE
    /\ LET body == IF s # <<>> /\ Head(s) = "-" THEN Tail(s) ELSE s
       IN body # <<>> /\ \A i \in 1..Len(body) : body[i] \in DIGITS

SpecialCodes == {<<".">>, <<"A">>, <<"G">>, <<"R">>}

\* C5: ".", "A", "G", "R" map to four distinct codes; every signed integer
\* literal n maps to the integer n, a result none of the four codes maps to;
\* a token that is neither raises an error.
C5_FieldCountSumType ==
    cpc = "done" /\ num_str # NONE =>
        /\ \A s, t \in SpecialCodes :
             vcf_field_count(s) = vcf_field_count(t) => s = t
        /\ num_str \in SpecialCodes => num.type \in {"NoneType", "int"}
        /\ SignedIntegerLiteral(num_str) =>
             /\ num.type = "int"
             /\ \A s \in SpecialCodes : num # vcf_field_count(s)
        /\ num_str \notin SpecialCodes /\ ~SignedIntegerLiteral(num_str)
             /\ Chars(num_str) \cap ({"+", "_"} \cup INT_WHITESPACE) = {}
             => num.type = "ValueError"

-----------------------------------------------------------------------------
(* Regular expressions (re.compile, re.VERBOSE, Pattern.match): a pattern is *)
(* a tree of nodes; matching is Python's backtracking search, anchored at   *)
(* the start only. Every repetition in the patterns of this program is over *)
(* a single character class.                                                *)

Lit(s) == [op |-> "lit", s |-> s]
In(cs) == [op |-> "in", cs |-> cs]
NotIn(cs) == [op |-> "notin", cs |-> cs]
Cat(rs) == [op |-> "cat", rs |-> rs]
Alt(rs) == [op |-> "alt", rs |-> rs]
Opt(r) == [op |-> "opt", r |-> r]
Star(r) == [op |-> "repeat", r |-> r, min |-> 0, lazy |-> FALSE]
Plus(r) == [op |-> "repeat", r |-> r, min |-> 1, lazy |-> FALSE]
LazyPlus(r) == [op |-> "repeat", r |-> r, min |-> 1, lazy |-> TRUE]
Group(name, r) == [op |-> "group", name |-> name, r |-> r]
Close(name, start) == [op |-> "close", name |-> name, start |-> start]

\* . (no DOTALL), \s and \d
Dot == NotIn({"\n"})
Space == In(WHITESPACE)
Digit == In(DIGITS)

NoMatch == [ok |-> FALSE, end |-> 0, groups |-> <<>>]

\* character ch is in character class r
in_class(r, ch) == IF r.op = "in" THEN ch \in r.cs ELSE ch \notin r.cs

\* how many characters of s from position i on are in character class r
run_length(r, s, i) ==
    LET stops == {j \in i..Len(s) : ~in_class(r, s[j])}
    IN IF stops = {} THEN Len(s) - i + 1
       ELSE (CHOOSE j \in stops : \A h \in stops : j <= h) - i

\* the first way, in Python's order of preference, to match the nodes of
\* todo one after the other from position i of s: a greedy repetition takes
\* the most characters that let the rest match, a lazy one the fewest
RECURSIVE re_search(_, _, _, _)
re_search(todo, s, i, groups) ==
    IF todo = <<>> THEN [ok |-> TRUE, end |-> i, groups |-> groups]
    ELSE
      LET r == Head(todo)
          more == Tail(todo)
      IN CASE r.op = "lit" ->
                IF i + Len(r.s) - 1 <= Len(s) /\ SubSeq(s, i, i + Len(r.s) - 1) = r.s
                THEN re_search(more, s, i + Len(r.s), groups)
                ELSE NoMatch
           [] r.op \in {"in", "notin"} ->
                IF i <= Len(s) /\ in_class(r, s[i])
                THEN re_search(more, s, i + 1, groups)
                ELSE NoMatch
           [] r.op = "cat" -> re_search(r.rs \o more, s, i, groups)
           [] r.op = "alt" ->
                IF r.rs = <<>> THEN NoMatch
                ELSE LET first == re_search(<<Head(r.rs)>> \o more, s, i, groups)
                     IN IF first.ok THEN first
                        ELSE re_search(<<Alt(Tail(r.rs))>> \o more, s, i, groups)
           [] r.op = "opt" ->
                LET with == re_search(<<r.r>> \o more, s, i, groups)
                IN IF with.ok THEN with ELSE re_search(more, s, i, groups)
           [] r.op = "repeat" ->
                LET fits == {n \in r.min..run_length(r.r, s, i) :
                               re_search(more, s, i + n, groups).ok}
                    take == IF r.lazy
                            THEN CHOOSE n \in fits : \A h \in fits : n <= h
                            ELSE CHOOSE n \in fits : \A h \in fits : n >= h
                IN IF fits = {} THEN NoMatch ELSE re_search(more, s, i + take, groups)
           [] r.op = "group" ->
                re_search(<<r.r, Close(r.name, i)>> \o more, s, i, groups)
           [] r.op = "close" ->
                re_search(more, s, i, [groups EXCEPT ![r.name] = SubSeq(s, r.start, i - 1)])

\* pattern.match(s): a group that took no part in the match is None
re_match(pattern, s) == re_search(<<pattern.re>>, s, 1, [n \in pattern.names |-> NONE])

-----------------------------------------------------------------------------
(* The patterns of _vcf_metadata_parser.__init__ *)

\* -?\d+|\.|[AGR]
number_token == Alt(<<Cat(<<Opt(Lit(<<"-">>)), Plus(Digit)>>), Lit(<<".">>), In({"A", "G", "R"})>>)

info_pattern ==
    [names |-> {"id", "number", "type", "desc", "source", "version"},
     re |-> Cat(<<
        Lit(<<"#", "#", "I", "N", "F", "O", "=", "<">>),
        Lit(<<"I", "D", "=">>), Group("id", Plus(NotIn({COMMA}))), Lit(<<",">>), Star(Space),
        Lit(<<"N", "u", "m", "b", "e", "r", "=">>), Opt(Group("number", number_token)), Lit(<<",">>), Star(Space),
        Lit(<<"T", "y", "p", "e", "=">>),
        Group("type", Alt(<<Lit(<<"I", "n", "t", "e", "g", "e", "r">>), Lit(<<"F", "l", "o", "a", "t">>), Lit(<<"F", "l", "a", "g">>),
                            Lit(<<"C", "h", "a", "r", "a", "c", "t", "e", "r">>), Lit(<<"S", "t", "r", "i", "n", "g">>)>>)),
        Lit(<<",">>), Star(Space),
        Lit(<<"D", "e", "s", "c", "r", "i", "p", "t", "i", "o", "n", "=", "\"">>), Group("desc", Star(NotIn({QUOTE}))), Lit(<<"\"">>),
        Opt(Cat(<<Lit(<<",">>), Star(Space), Lit(<<"S", "o", "u", "r", "c", "e", "=", "\"">>),
                  Group("source", Star(NotIn({QUOTE}))), Lit(<<"\"">>)>>)),
        Opt(Cat(<<Lit(<<",">>), Star(Space), Lit(<<"V", "e", "r", "s", "i", "o", "n", "=">>), Opt(Lit(<<"\"">>)),
                  Group("version", Star(NotIn({QUOTE}))), Opt(Lit(<<"\"">>))>>)),
        Lit(<<">">>)>>)]

filter_pattern ==
    [names |-> {"id", "desc"},
     re |-> Cat(<<
        Lit(<<"#", "#", "F", "I", "L", "T", "E", "R", "=", "<">>),
        Lit(<<"I", "D", "=">>), Group("id", Plus(NotIn({COMMA}))), Lit(<<",">>), Star(Space),
        Lit(<<"D", "e", "s", "c", "r", "i", "p", "t", "i", "o", "n", "=", "\"">>), Group("desc", Star(NotIn({QUOTE}))), Lit(<<"\"">>),
        Lit(<<">">>)>>)]

alt_pattern ==
    [names |-> {"id", "desc"},
     re |-> Cat(<<
        Lit(<<"#", "#", "A", "L", "T", "=", "<">>),
        Lit(<<"I", "D", "=">>), Group("id", Plus(NotIn({COMMA}))), Lit(<<",">>), Star(Space),
        Lit(<<"D", "e", "s", "c", "r", "i", "p", "t", "i", "o", "n", "=", "\"">>), Group("desc", Star(NotIn({QUOTE}))), Lit(<<"\"">>),
        Lit(<<">">>)>>)]

format_pattern ==
    [names |-> {"id", "number", "type", "desc"},
     re |-> Cat(<<
        Lit(<<"#", "#", "F", "O", "R", "M", "A", "T", "=", "<">>),
        Lit(<<"I", "D", "=">>), Group("id", Plus(Dot)), Lit(<<",">>), Star(Space),
        Lit(<<"N", "u", "m", "b", "e", "r", "=">>), Group("number", number_token), Lit(<<",">>), Star(Space),
        Lit(<<"T", "y", "p", "e", "=">>), Group("type", Plus(Dot)), Lit(<<",">>), Star(Space),
        Lit(<<"D", "e", "s", "c", "r", "i", "p", "t", "i", "o", "n", "=", "\"">>), Group("desc", Star(Dot)), Lit(<<"\"">>),
        Lit(<<">">>)>>)]

contig_pattern ==
    [names |-> {"id", "length", "2"},
     re |-> Cat(<<
        Lit(<<"#", "#", "c", "o", "n", "t", "i", "g", "=", "<">>),
        Lit(<<"I", "D", "=">>), Group("id", Plus(NotIn({">", COMMA}))),
        Opt(Group("2", Cat(<<Lit(<<",">>), Star(Dot), Lit(<<"l", "e", "n", "g", "t", "h", "=">>),
                             Group("length", Cat(<<Opt(Lit(<<"-">>)), Plus(Digit)>>))>>))),
        Star(Dot),
        Lit(<<">">>)>>)]

\* a meta_pattern whose key is greedy
meta_pattern_greedy ==
    [names |-> {"key", "val"},
     re |-> Cat(<<Lit(<<"#", "#">>), Group("key", Plus(Dot)), Lit(<<"=">>),
                  Group("val", Plus(Dot))>>)]

\* ##(?P<key>.+?)=(?P<val>.+)
meta_pattern ==
    [names |-> {"key", "val"},
     re |-> Cat(<<Lit(<<"#", "#">>), Group("key", LazyPlus(Dot)), Lit(<<"=">>),
                  Group("val", Plus(Dot))>>)]

\* ##.+=<
hash_form_pattern ==
    [names |-> {},
     re |-> Cat(<<Lit(<<"#", "#">>), Plus(Dot), Lit(<<"=", "<">>)>>)]

-----------------------------------------------------------------------------
(* The structured-line readers *)

Return(x) == [type |-> "return", value |-> x]

\* raise SyntaxError("One of the <tag> lines is malformed: %s" % s)
Malformed(tag, s) ==
    [type |-> "SyntaxError",
     value |-> <<"O", "n", "e", " ", "o", "f", " ", "t", "h", "e", " ">> \o tag \o <<" ", "l", "i", "n", "e", "s", " ", "i", "s", " ", "m", "a", "l", "f", "o", "r", "m", "e", "d", ":", " ">> \o s]

\* Read a meta-information INFO line.
read_info(info_string) ==
    LET match == re_match(info_pattern, info_string)
        n == vcf_field_count(match.groups["number"])
    IN IF ~match.ok THEN Malformed(<<"I", "N", "F", "O">>, info_string)
       ELSE IF n.type = "ValueError" THEN n
       ELSE Return(<<match.groups["id"],
                     [id |-> match.groups["id"], num |-> n,
                      type |-> match.groups["type"], desc |-> match.groups["desc"],
                      source |-> match.groups["source"],
                      version |-> match.groups["version"]]>>)

\* Read a meta-information FILTER line.
read_filter(filter_string) ==
    LET match == re_match(filter_pattern, filter_string)
    IN IF ~match.ok THEN Malformed(<<"F", "I", "L", "T", "E", "R">>, filter_string)
       ELSE Return(<<match.groups["id"],
                     [id |-> match.groups["id"], desc |-> match.groups["desc"]]>>)

\* Read a meta-information ALTline.
read_alt(alt_string) ==
    LET match == re_match(alt_pattern, alt_string)
    IN IF ~match.ok THEN Malformed(<<"A", "L", "T">>, alt_string)
       ELSE Return(<<match.groups["id"],
                     [id |-> match.groups["id"], desc |-> match.groups["desc"]]>>)

\* Read a meta-information FORMAT line.
read_format(format_string) ==
    LET match == re_match(format_pattern, format_string)
        n == vcf_field_count(match.groups["number"])
    IN IF ~match.ok THEN Malformed(<<"F", "O", "R", "M", "A", "T">>, format_string)
       ELSE IF n.type = "ValueError" THEN n
       ELSE Return(<<match.groups["id"],
                     [id |-> match.groups["id"], num |-> n,
                      type |-> match.groups["type"], desc |-> match.groups["desc"]]>>)

\* Read a meta-contigrmation INFO line.
read_contig(contig_string) ==
    LET match == re_match(contig_pattern, contig_string)
        n == vcf_field_count(match.groups["length"])
    IN IF ~match.ok THEN Malformed(<<"c", "o", "n", "t", "i", "g">>, contig_string)
       ELSE IF n.type = "ValueError" THEN n
       ELSE Return(<<match.groups["id"],
                     [id |-> match.groups["id"], length |-> n]>>)

-----------------------------------------------------------------------------
(* Header lines given to the readers: ##<tag>=<ID=<id><attributes>> *)

Tags == {
    <<"I", "N", "F", "O">>,
    <<"F", "I", "L", "T", "E", "R">>,
    <<"A", "L", "T">>,
    <<"F", "O", "R", "M", "A", "T">>,
    <<"c", "o", "n", "t", "i", "g">> }

Ids == {
    <<"D", "P">>,
    <<"a", ",", "b">>,
    <<"a", ",", "N", "u", "m", "b", "e", "r", "=", "1">> }

\* the last part separates the attributes with \v (0x0b)
NumberParts == {
    <<",", "N", "u", "m", "b", "e", "r", "=", "1">>,
    <<",", "N", "u", "m", "b", "e", "r", "=">>,
    <<",", "N", "u", "m", "b", "e", "r", "=", "A">>,
    <<",", "N", "u", "m", "b", "e", "r", "=", "-", "1">>,
    <<",", "N", "u", "m", "b", "e", "r", "=", ".">>,
    <<>>,
    <<",", "", "N", "u", "m", "b", "e", "r", "=", "2">> }

TypeParts == {
    <<",", "T", "y", "p", "e", "=", "I", "n", "t", "e", "g", "e", "r">>,
    <<>>,
    <<",", "T", "y", "p", "e", "=", "F", "o", "o">>,
    <<",", " ", "T", "y", "p", "e", "=", "F", "l", "a", "g">> }

DescriptionParts == {
    <<",", "D", "e", "s", "c", "r", "i", "p", "t", "i", "o", "n", "=", "\"", "D", "e", "p", "t", "h", "\"">>,
    <<",", "D", "e", "s", "c", "r", "i", "p", "t", "i", "o", "n", "=", "\"", "a", ",", "b", "\"">>,
    <<>>,
    <<",", "D", "e", "s", "c", "r", "i", "p", "t", "i", "o", "n", "=", "D", "e", "p", "t", "h">> }

TailParts == {
    <<>>,
    <<",", "S", "o", "u", "r", "c", "e", "=", "\"", "x", "\"">>,
    <<",", "S", "o", "u", "r", "c", "e", "=", "\"", "x", "\"", ",", "V", "e", "r", "s", "i", "o", "n", "=", "\"", "3", "\"">>,
    <<",", "V", "e", "r", "s", "i", "o", "n", "=", "3">>,
    <<",", "l", "e", "n", "g", "t", "h", "=", "5">>,
    <<",", "a", "s", "s", "e", "m", "b", "l", "y", "=", "b", "3", "7", ",", "l", "e", "n", "g", "t", "h", "=", "1", "2", ",", "m", "d", "5", "=", "f">> }

Lines ==
    { <<"#", "#">> \o tag \o <<"=", "<", "I", "D", "=">> \o id \o n \o t \o d \o x \o <<">">> :
        tag \in Tags, id \in Ids, n \in NumberParts, t \in TypeParts,
        d \in DescriptionParts, x \in TailParts }

StructInit ==
    /\ HashIdle
    /\ CountIdle
    /\ MetaIdle
    /\ VcfIdle
    /\ string \in Lines
    /\ spc = "call"
    /\ reader = "none"
    /\ record = PyNone

\* lines 173-190
ReadInfo ==
    /\ spc = "call"
    /\ spc' = "done"
    /\ reader' = "read_info"
    /\ record' = read_info(string)
    /\ UNCHANGED <<string, hashVars, countVars, metaVars, vcfVars>>

\* lines 192-202
ReadFilter ==
    /\ spc = "call"
    /\ spc' = "done"
    /\ reader' = "read_filter"
    /\ record' = read_filter(string)
    /\ UNCHANGED <<string, hashVars, countVars, metaVars, vcfVars>>

\* lines 204-212
ReadAlt ==
    /\ spc = "call"
    /\ spc' = "done"
    /\ reader' = "read_alt"
    /\ record' = read_alt(string)
    /\ UNCHANGED <<string, hashVars, countVars, metaVars, vcfVars>>

\* lines 214-226
ReadFormat ==
    /\ spc = "call"
    /\ spc' = "done"
    /\ reader' = "read_format"
    /\ record' = read_format(string)
    /\ UNCHANGED <<string, hashVars, countVars, metaVars, vcfVars>>

\* lines 228-237
ReadContig ==
    /\ spc = "call"
    /\ spc' = "done"
    /\ reader' = "read_contig"
    /\ record' = read_contig(string)
    /\ UNCHANGED <<string, hashVars, countVars, metaVars, vcfVars>>

StructNext == ReadInfo \/ ReadFilter \/ ReadAlt \/ ReadFormat \/ ReadContig

SpecStruct == StructInit /\ [][StructNext]_vars

-----------------------------------------------------------------------------
(* Properties of the structured-line readers *)

\* index of the first occurrence of sub in s, 0 when there is none
FindSub(s, sub) ==
    LET at == {i \in 1..(Len(s) - Len(sub) + 1) : SubSeq(s, i, i + Len(sub) - 1) = sub}
    IN IF at = {} THEN 0 ELSE CHOOSE i \in at : \A j \in at : i <= j

Contains(s, sub) == FindSub(s, sub) # 0

\* the text of s after the first occurrence of sub
After(s, sub) == From(s, FindSub(s, sub) + Len(sub))

TypeNames == {<<"I", "n", "t", "e", "g", "e", "r">>, <<"F", "l", "o", "a", "t">>, <<"F", "l", "a", "g">>, <<"C", "h", "a", "r", "a", "c", "t", "e", "r">>, <<"S", "t", "r", "i", "n", "g">>}

\* the line gives Number one of ".", "A", "G", "R" or a signed integer
SuppliesNumber(s) ==
    /\ Contains(s, <<"N", "u", "m", "b", "e", "r", "=">>)
    /\ LET t == After(s, <<"N", "u", "m", "b", "e", "r", "=">>)
       IN /\ t # <<>>
          /\ \/ t[1] \in DIGITS \cup {".", "A", "G", "R"}
             \/ t[1] = "-" /\ Len(t) >= 2 /\ t[2] \in DIGITS

\* the line gives Type one of the five type names
SuppliesType(s) ==
    /\ Contains(s, <<"T", "y", "p", "e", "=">>)
    /\ \E name \in TypeNames : startswith(After(s, <<"T", "y", "p", "e", "=">>), name)

\* the line supplies an ID, a Number token, a Type name and a quoted Description
SuppliesInfoFields(s) ==
    /\ Contains(s, <<"I", "D", "=">>)
    /\ SuppliesNumber(s)
    /\ SuppliesType(s)
    /\ Contains(s, <<"D", "e", "s", "c", "r", "i", "p", "t", "i", "o", "n", "=", "\"">>)

\* C6: read_info returns a record only for a line that supplies an ID, a
\* Number token, a Type name and a quoted Description; for every ##INFO= line
\* lacking one of them it raises the malformed-line error that carries the
\* raw line, and returns nothing.
C6_InfoRequiresAllFields ==
    spc = "done" /\ reader = "read_info" /\ startswith(string, <<"#", "#", "I", "N", "F", "O", "=">>) =>
        /\ record.type = "return" => SuppliesInfoFields(string)
        /\ ~SuppliesInfoFields(string) => record = Malformed(<<"I", "N", "F", "O">>, string)

\* the text between "ID=" and the next comma, or the closing bracket when no
\* comma follows
TextOfId(s) ==
    LET t == After(s, <<"I", "D", "=">>)
    IN IF Find(t, COMMA) # 0 THEN SubSeq(t, 1, Find(t, COMMA) - 1)
       ELSE rstrip(t, {">"})

\* C9: the id of every record a reader returns is the text between "ID=" and
\* the next comma of the line (the closing bracket for a lone ID); it holds
\* no comma and swallows no following attribute.
C9_IdEndsAtNextComma ==
    spc = "done" /\ record.type = "return" =>
        /\ record.value[1] = TextOfId(string)
        /\ record.value[2].id = TextOfId(string)
        /\ COMMA \notin Chars(record.value[1])
        /\ ~Contains(record.value[1], <<"N", "u", "m", "b", "e", "r", "=">>)

-----------------------------------------------------------------------------
(* read_meta *)

\* the value given to a line that is not key=value
NO_VALUE == <<"n", "o", "n", "e">>

read_meta(ms) ==
    IF re_match(hash_form_pattern, ms).ok THEN read_meta_hash(ms)
    ELSE LET match == re_match(meta_pattern, ms)
         IN IF ~match.ok THEN <<lstrip(ms, {HASH}), NO_VALUE>>
            ELSE <<match.groups["key"], match.groups["val"]>>

MaxMeta == 5

MetaChars == {"a", EQ, HASH, "<", "\n"}

MetaExamples == {<<"#", "#", "f", "i", "l", "e", "D", "a", "t", "e", "=", "2", "0", "2", "3", "0", "1", "0", "1">>, <<"#", "#", "c", "u", "s", "t", "o", "m">>, <<"#", "#", "k", "e", "y", "=">>, <<"#", "#", "=", "v", "a", "l", "u", "e">>}

MetaLines == {<<HASH, HASH>> \o t : t \in Strs(MetaChars, MaxMeta)} \cup MetaExamples

MetaInit ==
    /\ HashIdle
    /\ CountIdle
    /\ StructIdle
    /\ VcfIdle
    /\ meta_line \in MetaLines
    /\ mpc = "call"
    /\ meta = <<>>

\* lines 277-286
ReadMeta ==
    /\ mpc = "call"
    /\ mpc' = "done"
    /\ meta' = read_meta(meta_line)
    /\ UNCHANGED <<meta_line, hashVars, countVars, structVars, vcfVars>>

MetaNext == ReadMeta

SpecMeta == MetaInit /\ [][MetaNext]_vars

\* the line is not in the bracketed form read_meta hands to read_meta_hash
Bare(s) == ~re_match(hash_form_pattern, s).ok

\* C8 as stated: a line that is not in bracketed form gets the no-value
\* sentinel exactly when it holds no "="; then the key is the text after the
\* "##" marker; otherwise key and value are the texts before and after the
\* first "=", empty or not.
C8_SplitsOnFirstEq ==
    mpc = "done" /\ Bare(meta_line) =>
        /\ meta[2] = NO_VALUE <=> Find(meta_line, EQ) = 0
        /\ Find(meta_line, EQ) = 0 => meta[1] = From(meta_line, 3)
        /\ Find(meta_line, EQ) # 0 =>
             meta = <<SubSeq(meta_line, 3, Find(meta_line, EQ) - 1),
                      From(meta_line, Find(meta_line, EQ) + 1)>>

\* the text of s before its first line break
FirstLine(s) == IF Find(s, "\n") = 0 THEN s ELSE SubSeq(s, 1, Find(s, "\n") - 1)

\* index of the first "=" of s that has a character of key before it, 0 when
\* there is none
KeyEnd(s) ==
    LET at == {i \in 4..Len(s) : s[i] = EQ}
    IN IF at = {} THEN 0 ELSE CHOOSE i \in at : \A j \in at : i <= j

\* s has an "=" with a non-empty key before it and a non-empty value after it
IsKeyValue(s) == KeyEnd(FirstLine(s)) # 0 /\ KeyEnd(FirstLine(s)) < Len(FirstLine(s))

\* C8 amended: a line that is not in bracketed form is split at the first "="
\* that follows a non-empty key, provided a non-empty value follows it (the
\* value ends at the line break); every other line, "##key=" and "##=value"
\* included, gets the no-value sentinel, its key being the whole text after
\* the leading "#" characters.
C8_SplitsOnFirstEqWithKeyAndValue ==
    mpc = "done" /\ Bare(meta_line) =>
        LET first == FirstLine(meta_line)
        IN /\ IsKeyValue(meta_line) =>
                meta = <<SubSeq(first, 3, KeyEnd(first) - 1), From(first, KeyEnd(first) + 1)>>
           /\ ~IsKeyValue(meta_line) =>
                meta = <<lstrip(meta_line, {HASH}), NO_VALUE>>

C8_Witness ==
    /\ mpc = "done"
    /\ meta_line = <<"#", "#", "k", "e", "y", "=">>
    /\ meta = <<<<"k", "e", "y", "=">>, NO_VALUE>>

-----------------------------------------------------------------------------
(* _core.read_vcf *)

MaxLines == 3

FileLines == {<<"#", "#", "a", "\n">>, <<"#", "#", "b", "\n">>, <<"x", "\n">>, <<"#", "c", "\n">>}

Files == UNION {[1..n -> FileLines] : n \in 0..MaxLines}

HEADER_MARK == <<HASH, HASH>>

VcfInit ==
    /\ HashIdle
    /\ CountIdle
    /\ StructIdle
    /\ MetaIdle
    /\ file \in Files
    /\ fpc = "call"
    /\ pos = 0
    /\ header = <<>>
    /\ content = <<>>
    /\ line = UNBOUND
    /\ ret = PyNone

\* lines 8-9
VcfOpen ==
    /\ fpc = "call"
    /\ fpc' = "loop"
    /\ header' = <<>>
    /\ content' = <<>>
    /\ UNCHANGED <<file, pos, line, ret, hashVars, countVars, structVars, metaVars>>

\* lines 10-14, one line of the file
VcfLine ==
    /\ fpc = "loop"
    /\ pos < Len(file)
    /\ pos' = pos + 1
    /\ line' = file[pos + 1]
    /\ IF startswith(file[pos + 1], HEADER_MARK)
       THEN header' = header \o file[pos + 1] /\ content' = content
       ELSE content' = content \o file[pos + 1] /\ header' = header
    /\ UNCHANGED <<file, fpc, ret, hashVars, countVars, structVars, metaVars>>

\* line 16
VcfReturn ==
    /\ fpc = "loop"
    /\ pos = Len(file)
    /\ fpc' = "done"
    /\ ret' = IF line = UNBOUND THEN Raised("UnboundLocalError")
              ELSE Return(<<header, line>>)
    /\ UNCHANGED <<file, pos, header, content, line, hashVars, countVars, structVars, metaVars>>

VcfNext == VcfOpen \/ VcfLine \/ VcfReturn

SpecVcf == VcfInit /\ [][VcfNext]_vars

\* the concatenation of the lines of f
RECURSIVE Joined(_)
Joined(f) == IF f = <<>> THEN <<>> ELSE Head(f) \o Joined(Tail(f))

IsHeaderLine(l) == startswith(l, HEADER_MARK)

\* how many lines of f come before its first line that is no header line
HeaderLength(f) ==
    LET at == {i \in 1..Len(f) : ~IsHeaderLine(f[i])}
    IN IF at = {} THEN Len(f) ELSE (CHOOSE i \in at : \A j \in at : i <= j) - 1

Smaller(a, b) == IF a <= b THEN a ELSE b

\* C7: lines are taken into the header in file order up to the first line
\* that does not start with "##"; the header ends there and no later line is
\* added to it, also when it starts with "##".
C7_HeaderEndsAtFirstNonHeaderLine ==
    fpc \in {"loop", "done"} =>
        header = Joined(SubSeq(file, 1, Smaller(pos, HeaderLength(file))))

\* C10: read_vcf returns, for every file, the pair of the "##" lines joined
\* in file order and of all the other lines joined in file order.
C10_ReturnsHeaderAndBody ==
    fpc = "done" =>
        ret = Return(<<Joined(SelectSeq(file, IsHeaderLine)),
                       Joined(SelectSeq(file, LAMBDA l : ~IsHeaderLine(l)))>>)

=============================================================================
